---- MODULE Spec2Model ----
(***************************************************************************)
(* Model of broadcaster/_backends/redis.py: the transient pub/sub backend  *)
(* (RedisBackend) and the durable stream backend (RedisStreamBackend),     *)
(* each with the part of the Redis store and of the redis-py client its    *)
(* calls rely on.  One backend instance is modelled per behaviour; the     *)
(* variable "backend" says which class was constructed.                    *)
(*                                                                         *)
(* Strings are sequences of code points, byte strings are sequences of     *)
(* bytes; Encode and Decode are UTF-8 (strict), with the exception name as *)
(* the result where Python raises.  Stream entry ids are the entry's       *)
(* position in its stream (1, 2, ...); the cursor "0" is 0.                *)
(***************************************************************************)
EXTENDS Integers, Sequences, FiniteSets, TLC

\* ------------------------------------------------------------------ bounds
MaxPub == 2
MaxCalls == 3

\* ------------------------------------------------------------------ inputs
\* channel names "a" and "b"
Channels == { <<97>>, <<98>> }
None == "None"

\* ------------------------------------------------------------------ UTF-8
UnicodeEncodeError == "UnicodeEncodeError"
UnicodeDecodeError == "UnicodeDecodeError"

\* A code point str.encode() refuses: a surrogate (U+D800 .. U+DFFF).
Surrogate(c) == c >= 55296 /\ c <= 57343

Encodable(s) == \A i \in 1..Len(s) : ~Surrogate(s[i])

\* The UTF-8 form of one code point: one to four bytes.
EncodeChar(c) ==
    IF c < 128 THEN <<c>>
    ELSE IF c < 2048 THEN <<192 + (c \div 64), 128 + (c % 64)>>
    ELSE IF c < 65536
         THEN <<224 + (c \div 4096), 128 + ((c \div 64) % 64), 128 + (c % 64)>>
         ELSE <<240 + (c \div 262144), 128 + ((c \div 4096) % 64),
                128 + ((c \div 64) % 64), 128 + (c % 64)>>

RECURSIVE EncodeChars(_)
EncodeChars(s) ==
    IF s = <<>> THEN <<>> ELSE EncodeChar(Head(s)) \o EncodeChars(Tail(s))

\* str.encode("utf-8")
Encode(s) == IF Encodable(s) THEN EncodeChars(s) ELSE UnicodeEncodeError

\* Length of the UTF-8 sequence a lead byte announces; 0 for a byte that
\* cannot lead (a continuation byte, 0xC0, 0xC1, 0xF5 .. 0xFF).
CharLen(b0) ==
    IF b0 < 128 THEN 1
    ELSE IF b0 >= 194 /\ b0 <= 223 THEN 2
    ELSE IF b0 >= 224 /\ b0 <= 239 THEN 3
    ELSE IF b0 >= 240 /\ b0 <= 244 THEN 4
    ELSE 0

Continuation(x) == x >= 128 /\ x <= 191

\* The range of the second byte: it excludes overlong forms, surrogates and
\* code points above U+10FFFF.
SecondByte(b0, x) ==
    IF b0 = 224 THEN x >= 160 /\ x <= 191
    ELSE IF b0 = 237 THEN x >= 128 /\ x <= 159
    ELSE IF b0 = 240 THEN x >= 144 /\ x <= 191
    ELSE IF b0 = 244 THEN x >= 128 /\ x <= 143
    ELSE Continuation(x)

\* b starts with one well-formed UTF-8 sequence.
LeadsChar(b) ==
    LET n == CharLen(b[1])
    IN  /\ n >= 1
        /\ Len(b) >= n
        /\ n >= 2 => SecondByte(b[1], b[2])
        /\ \A i \in 3..n : Continuation(b[i])

RECURSIVE Decodable(_)
Decodable(b) ==
    \/ b = <<>>
    \/ LeadsChar(b) /\ Decodable(SubSeq(b, CharLen(b[1]) + 1, Len(b)))

\* The code point of the well-formed sequence b starts with.
DecodeChar(b) ==
    LET n == CharLen(b[1])
    IN  IF n = 1 THEN b[1]
        ELSE IF n = 2 THEN (b[1] - 192) * 64 + (b[2] - 128)
        ELSE IF n = 3 THEN (b[1] - 224) * 4096 + (b[2] - 128) * 64 + (b[3] - 128)
        ELSE (b[1] - 240) * 262144 + (b[2] - 128) * 4096 + (b[3] - 128) * 64
                 + (b[4] - 128)

RECURSIVE DecodeChars(_)
DecodeChars(b) ==
    IF b = <<>> THEN <<>>
    ELSE <<DecodeChar(b)>> \o DecodeChars(SubSeq(b, CharLen(b[1]) + 1, Len(b)))

\* bytes.decode() / bytes.decode("utf-8")
Decode(b) == IF Decodable(b) THEN DecodeChars(b) ELSE UnicodeDecodeError

\* ------------------------------------------------------------------ payloads
\* The message argument of publish is typing.Any: a str or a bytes object.
Str(s) == [type |-> "str", val |-> s]

Bytes(b) == [type |-> "bytes", val |-> b]

\* The text "h", e-acute, euro sign (one-, two- and three-byte characters)
\* and the bytes object b"\xff".
Messages == { Str(<<104, 233, 8364>>), Bytes(<<255>>) }

\* The client can put the value on the wire: bytes as they are, str as UTF-8.
Sendable(v) == v.type = "bytes" \/ Encodable(v.val)

Wire(v) == IF v.type = "bytes" THEN v.val ELSE Encode(v.val)

StoreKeys == { Encode(c) : c \in Channels }

\* What a stream of the store may hold when the backend is constructed: it was
\* never written, or it holds an entry appended by an earlier instance.
StoredStreams ==
    { <<>> } \cup { <<Wire(m)>> : m \in { x \in Messages : x.type = "str" /\ Sendable(x) } }

\* ------------------------------------------------------------------ dict
\* A Python dict (insertion ordered) as a sequence of [ch, id] items.
HasKey(d, k) == \E i \in 1..Len(d) : d[i].ch = k

Keys(d) == { d[i].ch : i \in 1..Len(d) }

Get(d, k) == d[CHOOSE i \in 1..Len(d) : d[i].ch = k].id

DictSet(d, k, v) ==
    IF HasKey(d, k)
    THEN [i \in 1..Len(d) |-> IF d[i].ch = k THEN [ch |-> k, id |-> v] ELSE d[i]]
    ELSE Append(d, [ch |-> k, id |-> v])

DictPop(d, k) == SelectSeq(d, LAMBDA e : e.ch # k)

VARIABLES
    backend,      \* "redis" (RedisBackend) or "redis-stream" (RedisStreamBackend)
    \* --- RedisBackend and its pub/sub session
    tReady,       \* self._ready
    tQueue,       \* self._queue
    tListener,    \* position of the _pubsub_listener task
    tSub,         \* <<channel>> of a subscribe call suspended in pubsub.subscribe, or <<>>
    tGet,         \* position of the next_published caller
    tChannels,    \* self._pubsub.channels
    tPending,     \* self._pubsub.pending_unsubscribe_channels
    srvSubs,      \* channels the store has the pub/sub connection subscribed to
    tFeed,        \* messages the store has pushed to the pub/sub connection, unread
    tDisc,        \* position of a disconnect call: "idle", or the await it is in
    \* --- RedisStreamBackend and the store's streams
    log,          \* store key -> entries of the stream (fields' "message" value)
    streams,      \* self.streams
    dReady,       \* self._ready
    dSub,         \* <<call>> of a subscribe suspended in xinfo_stream, or <<>>
    dPc,          \* position of the next_published caller
    dReq,         \* streams argument of the XREAD in flight
    dReply,       \* answer of the store to the XREAD, not yet received
    dBlocked,     \* the XREAD in flight found nothing to read when it was issued:
                  \* the store holds it, and answers empty if the block time ends
    dDisc,        \* position of a disconnect call: "idle", or the await it is in
    \* --- both classes
    conns,        \* store connections of the backend's clients that are established
    closed,       \* disconnect has been called
    \* --- observation
    pubs,         \* publish calls made so far
    active,       \* channels with a completed subscribe and no completed unsubscribe since
    delivered,    \* events returned by next_published so far
    everSub,      \* channels for which a subscribe call has completed
    errors,       \* <<operation, exception>> of the calls that have raised so far
    callStreams,  \* self.streams when the pending next_published call started
    callSeen,     \* channels subscribed when that call started, or subscribed since
    serial,       \* no subscribe/unsubscribe call has overlapped a store read so far
    nCalls,       \* connect, disconnect, subscribe and unsubscribe calls made so far
    resub,        \* channels subscribed again while subscribed
    consumed,     \* publish calls of the data messages the listener has read from the
                  \* feed, in the order it read them
    cancelled     \* publish call of the event at hand of the last next_published
                  \* call cancelled with one at hand (0: no such call yet)

tVars == <<tReady, tQueue, tListener, tSub, tGet, tChannels, tPending, srvSubs, tFeed,
          tDisc>>
dVars == <<log, streams, dReady, dSub, dPc, dReq, dReply, dBlocked, dDisc>>
callVars == <<callStreams, callSeen>>
obsVars == <<pubs, active, everSub, resub, delivered, errors, callVars, serial, nCalls,
            consumed, cancelled>>
vars == <<backend, tVars, dVars, conns, closed, obsVars>>

\* ------------------------------------------------------------------ store
\* Id of the last entry of a stream ("last-generated-id" of XINFO STREAM).
LastGeneratedId(lg, key) == Len(lg[key])

\* XINFO STREAM: ResponseError ("no such key") for a stream never written.
XInfoStream(lg, key) ==
    [error |-> IF lg[key] = <<>> THEN "ResponseError" ELSE None,
     last  |-> LastGeneratedId(lg, key)]

\* XREAD COUNT 1 STREAMS k1 .. kn id1 .. idn: for each requested stream, in
\* request order, that has an entry after the given id, its first such entry.
XRead(req, lg) ==
    LET hit == SelectSeq(req, LAMBDA e : Len(lg[Encode(e.ch)]) > e.id)
    IN  [i \in 1..Len(hit) |->
            [stream |-> Encode(hit[i].ch),
             id     |-> hit[i].id + 1,
             fields |-> lg[Encode(hit[i].ch)][hit[i].id + 1]]]

\* Number of publish calls so far on channel c among the first n.
RECURSIVE CountOn(_, _, _)
CountOn(ps, c, n) ==
    IF n = 0 THEN 0
    ELSE CountOn(ps, c, n - 1) + (IF ps[n].channel = c THEN 1 ELSE 0)

\* Number of entries channel c's stream held before the first publish call.
StoredBefore(lg, ps, c) == Len(lg[Encode(c)]) - CountOn(ps, c, Len(ps))

\* The publish call that appended entry id of channel c's stream.
PidOf(lg, ps, c, id) ==
    CHOOSE n \in 1..Len(ps) :
        ps[n].channel = c /\ StoredBefore(lg, ps, c) + CountOn(ps, c, n) = id

Publication(c, m) ==
    [channel |-> c, message |-> m, live |-> c \in active, early |-> c \notin everSub]

\* ------------------------------------------------------------------ Init
Init ==
    /\ backend \in {"redis", "redis-stream"}
    /\ tReady = FALSE
    /\ tQueue = <<>>
    /\ tListener = "created"
    /\ tSub = <<>>
    /\ tGet = "idle"
    /\ tChannels = {}
    /\ tPending = {}
    /\ srvSubs = {}
    /\ tFeed = <<>>
    /\ tDisc = "idle"
    /\ log \in [StoreKeys -> StoredStreams]
    /\ backend = "redis" => log = [k \in StoreKeys |-> <<>>]
    /\ streams = <<>>
    /\ dReady = FALSE
    /\ dSub = <<>>
    /\ dPc = "idle"
    /\ dReq = <<>>
    /\ dReply = <<>>
    /\ dBlocked = FALSE
    /\ dDisc = "idle"
    /\ pubs = <<>>
    /\ active = {}
    /\ delivered = <<>>
    /\ everSub = {}
    /\ errors = {}
    /\ callStreams = <<>>
    /\ callSeen = {}
    /\ serial = TRUE
    /\ nCalls = 0
    /\ resub = {}
    /\ cancelled = 0
    /\ conns = {}
    /\ closed = FALSE
    /\ consumed = <<>>

\* ================================================= RedisStreamBackend =====
InStoreRead == dPc \in {"xread", "served"}

\* subscribe, up to the suspension in xinfo_stream: the store answers the lookup.
D_SubscribeCall(c) ==
    /\ backend = "redis-stream"
    /\ dSub = <<>>
    /\ nCalls < MaxCalls
    /\ dSub' = <<[ch |-> c, info |-> XInfoStream(log, Encode(c))]>>
    /\ nCalls' = nCalls + 1
    /\ serial' = (serial /\ ~InStoreRead)
    /\ UNCHANGED <<backend, tVars, log, streams, dReady, dPc, dReq, dReply>>
    /\ UNCHANGED <<pubs, active, everSub, resub, delivered, errors, callVars, cancelled>>
    /\ conns' = conns \cup {"consumer"}
    /\ UNCHANGED consumed
    /\ UNCHANGED <<closed, dBlocked, dDisc>>

\* subscribe, from the answer of xinfo_stream on.  On ResponseError the except
\* clause names aioredis, which the module never imports: evaluating it raises
\* NameError and the call ends there.
D_SubscribeReturn ==
    /\ backend = "redis-stream"
    /\ dSub # <<>>
    /\ LET c == dSub[1].ch
       IN  IF dSub[1].info.error = "ResponseError"
           THEN /\ errors' = errors \cup {<<"subscribe", "NameError">>}
                /\ UNCHANGED <<streams, dReady, active, everSub, resub, callSeen>>
           ELSE /\ streams' = DictSet(streams, c, dSub[1].info.last)
                /\ dReady' = TRUE
                /\ active' = active \cup {c}
                /\ everSub' = everSub \cup {c}
                /\ resub' = IF c \in active THEN resub \cup {c} ELSE resub
                /\ callSeen' = IF dPc = "idle" THEN callSeen ELSE callSeen \cup {c}
                /\ UNCHANGED errors
    /\ dSub' = <<>>
    /\ serial' = (serial /\ ~InStoreRead)
    /\ UNCHANGED <<backend, tVars, log, dPc, dReq, dReply>>
    /\ UNCHANGED <<pubs, delivered, callStreams, nCalls, cancelled>>
    /\ UNCHANGED <<conns, consumed>>
    /\ UNCHANGED <<closed, dBlocked, dDisc>>

\* self.streams.pop(channel, None): the default makes a missing key no error.
PopRaisesKeyError(d, k) == IF HasKey(d, k) THEN {} ELSE {<<"unsubscribe", "KeyError">>}

PopRaises(d, k) == {}

D_Unsubscribe(c) ==
    /\ backend = "redis-stream"
    /\ nCalls < MaxCalls
    /\ streams' = DictPop(streams, c)
    /\ errors' = errors \cup PopRaises(streams, c)
    /\ active' = active \ {c}
    /\ nCalls' = nCalls + 1
    /\ serial' = (serial /\ ~InStoreRead)
    /\ UNCHANGED <<backend, tVars, log, dReady, dSub, dPc, dReq, dReply>>
    /\ UNCHANGED <<pubs, everSub, resub, delivered, callVars, cancelled>>
    /\ UNCHANGED <<conns, consumed>>
    /\ UNCHANGED <<closed, dBlocked, dDisc>>

\* publish: XADD appends {message: m}; the store creates the stream if needed.
\* A str the client cannot encode raises and nothing is appended.
D_Publish(c, m) ==
    /\ backend = "redis-stream"
    /\ Len(pubs) < MaxPub
    /\ IF Sendable(m)
       THEN /\ log' = [log EXCEPT ![Encode(c)] = Append(@, Wire(m))]
            /\ pubs' = Append(pubs, Publication(c, m))
            /\ UNCHANGED errors
       ELSE /\ errors' = errors \cup {<<"publish", UnicodeEncodeError>>}
            /\ UNCHANGED <<log, pubs>>
    /\ UNCHANGED <<backend, tVars, streams, dReady, dSub, dPc, dReq, dReply>>
    /\ UNCHANGED <<active, everSub, resub, delivered, callVars, serial, nCalls,
                   cancelled>>
    /\ conns' = conns \cup {"producer"}
    /\ UNCHANGED consumed
    /\ UNCHANGED <<closed, dBlocked, dDisc>>

\* xread(self.streams, count=1, block=1000): redis-py refuses an empty dict
\* with DataError before anything is sent.
D_IssueRead(started, seen) ==
    IF streams = <<>>
    THEN /\ dPc' = "idle"
         /\ errors' = errors \cup {<<"next_published", "DataError">>}
         /\ dReq' = <<>>
         /\ dBlocked' = FALSE
         /\ UNCHANGED conns
         /\ callStreams' = <<>>
         /\ callSeen' = {}
    ELSE /\ dPc' = "xread"
         /\ dReq' = streams
         /\ dBlocked' = (XRead(streams, log) = <<>>)
         /\ conns' = conns \cup {"consumer"}
         /\ callStreams' = started
         /\ callSeen' = seen
         /\ UNCHANGED errors

\* next_published is called: wait_for_messages waits on the gate, and with the
\* gate already set goes on to the first xread without suspending.
D_NextCall ==
    /\ backend = "redis-stream"
    /\ dPc = "idle"
    /\ IF dReady
       THEN D_IssueRead(streams, active)
       ELSE /\ dPc' = "wait"
            /\ UNCHANGED conns
            /\ callStreams' = streams
            /\ callSeen' = active
            /\ UNCHANGED <<dReq, dBlocked, errors>>
    /\ serial' = (serial /\ dSub = <<>>)
    /\ UNCHANGED <<backend, tVars, log, streams, dReady, dSub, dReply>>
    /\ UNCHANGED <<pubs, active, everSub, resub, delivered, nCalls, cancelled>>
    /\ UNCHANGED consumed
    /\ UNCHANGED <<closed, dDisc>>

\* The gate was set: the waiter resumes and issues the first xread.
D_GatePass ==
    /\ backend = "redis-stream"
    /\ dPc = "wait"
    /\ dReady
    /\ D_IssueRead(callStreams, callSeen)
    /\ serial' = (serial /\ dSub = <<>>)
    /\ UNCHANGED <<backend, tVars, log, streams, dReady, dSub, dReply>>
    /\ UNCHANGED <<pubs, active, everSub, resub, delivered, nCalls, cancelled>>
    /\ UNCHANGED consumed
    /\ UNCHANGED <<closed, dDisc>>

\* The store answers the XREAD with the first entry after the cursor of each
\* requested stream that has one: at once, or when an entry is appended while
\* the read is blocked.
D_XReadServe ==
    /\ backend = "redis-stream"
    /\ dPc = "xread"
    /\ XRead(dReq, log) # <<>>
    /\ dReply' = XRead(dReq, log)
    /\ dPc' = "served"
    /\ dBlocked' = FALSE
    /\ UNCHANGED <<backend, tVars, log, streams, dReady, dSub, dReq, obsVars>>
    /\ UNCHANGED conns
    /\ UNCHANGED <<closed, dDisc>>

\* The block time of a blocked XREAD ended with nothing to read, and the call
\* resumes with the store's empty answer: messages is empty and the while
\* loop calls xread again, with self.streams as it is now.  What was
\* published or subscribed while the empty answer was on its way is there
\* when the call resumes.
D_XReadTimeout ==
    /\ backend = "redis-stream"
    /\ dPc = "xread"
    /\ dBlocked
    /\ D_IssueRead(callStreams, callSeen)
    /\ UNCHANGED <<backend, tVars, log, streams, dReady, dSub, dReply>>
    /\ UNCHANGED <<pubs, active, everSub, resub, delivered, serial, nCalls, cancelled>>
    /\ UNCHANGED consumed
    /\ UNCHANGED <<closed, dDisc>>

\* An Event (channel, message), with where it came from: the publish call, the
\* stream entry id, the cursor the call started from and the number of other
\* streams in the store's answer (durable backend), and whether its channel
\* was subscribed at some time during the call.
Event(c, m, pid, id, from, sub, also) ==
    [channel |-> c, message |-> m, pid |-> pid, id |-> id, from |-> from, sub |-> sub,
     also |-> also]

\* self.streams[stream] = _msg_id
Advance(d, k, v) == DictSet(d, k, v)

\* The answer arrives: next_published takes messages[0], its first entry,
\* stores the entry's id as the stream's cursor and returns the Event.  A
\* message value that is not UTF-8 raises when the Event is built, after the
\* cursor was stored.
D_NextReturn ==
    /\ backend = "redis-stream"
    /\ dPc = "served"
    /\ LET first == dReply[1]
           c == Decode(first.stream)
       IN  /\ streams' = Advance(streams, c, first.id)
           /\ IF Decodable(first.fields)
              THEN /\ delivered' = Append(delivered,
                          Event(c, Decode(first.fields), PidOf(log, pubs, c, first.id),
                                first.id,
                                IF HasKey(callStreams, c) THEN Get(callStreams, c) ELSE -1,
                                c \in callSeen, Len(dReply) - 1))
                   /\ UNCHANGED errors
              ELSE /\ errors' = errors \cup {<<"next_published", UnicodeDecodeError>>}
                   /\ UNCHANGED delivered
    /\ dPc' = "idle"
    /\ dReq' = <<>>
    /\ dReply' = <<>>
    /\ dBlocked' = FALSE
    /\ callStreams' = <<>>
    /\ callSeen' = {}
    /\ UNCHANGED <<backend, tVars, log, dReady, dSub>>
    /\ UNCHANGED <<pubs, active, everSub, resub, serial, nCalls, cancelled>>
    /\ UNCHANGED <<conns, consumed>>
    /\ UNCHANGED <<closed, dDisc>>

\* The caller abandons the pending next_published at one of its suspension
\* points (the gate wait or the xread); an answer in flight is discarded.
D_Cancel ==
    /\ backend = "redis-stream"
    /\ dPc \in {"wait", "xread", "served"}
    /\ cancelled' = IF dPc = "served"
                    THEN PidOf(log, pubs, Decode(dReply[1].stream), dReply[1].id)
                    ELSE cancelled
    /\ dPc' = "idle"
    /\ dReq' = <<>>
    /\ dReply' = <<>>
    /\ dBlocked' = FALSE
    /\ callStreams' = <<>>
    /\ callSeen' = {}
    /\ UNCHANGED <<backend, tVars, log, streams, dReady, dSub>>
    /\ UNCHANGED <<pubs, active, everSub, resub, delivered, errors, serial, nCalls>>
    /\ UNCHANGED <<conns, consumed>>
    /\ UNCHANGED <<closed, dDisc>>

\* connect: the body is "pass"; nothing is sent to the store, whether it can
\* be reached (up) or not, and the call returns.
D_Connect(up) ==
    /\ backend = "redis-stream"
    /\ nCalls < MaxCalls
    /\ nCalls' = nCalls + 1
    /\ serial' = (serial /\ ~InStoreRead)
    /\ UNCHANGED <<backend, tVars, dVars, conns>>
    /\ UNCHANGED <<pubs, active, everSub, resub, delivered, errors, callVars, consumed,
                   cancelled>>
    /\ UNCHANGED closed

\* disconnect, up to its first suspension: the producer client is closed.
D_DisconnectCall ==
    /\ backend = "redis-stream"
    /\ dDisc = "idle"
    /\ nCalls < MaxCalls
    /\ conns' = conns \ {"producer"}
    /\ dDisc' = "producer.close"
    /\ nCalls' = nCalls + 1
    /\ closed' = TRUE
    /\ UNCHANGED <<backend, tVars, log, streams, dReady, dSub, dPc, dReq, dReply, dBlocked>>
    /\ UNCHANGED <<pubs, active, everSub, resub, delivered, errors, callVars, serial,
                   consumed, cancelled>>

\* disconnect, resumed after the producer's close: the consumer client is
\* closed.
D_DisconnectConsumer ==
    /\ backend = "redis-stream"
    /\ dDisc = "producer.close"
    /\ conns' = conns \ {"consumer"}
    /\ dDisc' = "consumer.close"
    /\ UNCHANGED <<backend, tVars, log, streams, dReady, dSub, dPc, dReq, dReply, dBlocked>>
    /\ UNCHANGED <<closed, obsVars>>

\* disconnect, resumed after the consumer's close: the call returns.  The
\* cursor mapping and the gate stay as they are.
D_DisconnectReturn ==
    /\ backend = "redis-stream"
    /\ dDisc = "consumer.close"
    /\ dDisc' = "idle"
    /\ UNCHANGED <<backend, tVars, log, streams, dReady, dSub, dPc, dReq, dReply, dBlocked>>
    /\ UNCHANGED <<conns, closed, obsVars>>

NextD ==
    \/ \E up \in BOOLEAN : D_Connect(up)
    \/ D_DisconnectCall
    \/ D_DisconnectConsumer
    \/ D_DisconnectReturn
    \/ \E c \in Channels : D_SubscribeCall(c)
    \/ D_SubscribeReturn
    \/ \E c \in Channels : D_Unsubscribe(c)
    \/ \E c \in Channels, m \in Messages : D_Publish(c, m)
    \/ D_NextCall
    \/ D_GatePass
    \/ D_XReadServe
    \/ D_XReadTimeout
    \/ D_NextReturn
    \/ D_Cancel

\* ======================================================= RedisBackend =====
\* A message of the pub/sub feed: type "subscribe" / "unsubscribe" (the store's
\* acknowledgment of the command) or "message" (a published payload).
FeedMessage(type, key, data, pid) ==
    [type |-> type, channel |-> key, data |-> data, pid |-> pid]

\* Positions of the _pubsub_listener task: "created" (not run yet), "waiting"
\* (on the gate), "listening" (in the feed iteration), "finished" (returned),
\* "failed" (ended by an exception), "stopped" (cancelled).
\*
\* listen() of the redis-py session: "while self.subscribed", that is while
\* channels is non-empty, read the next message of the feed.  With no channel
\* the iteration is over and _pubsub_listener returns.
Listen(chs) == IF chs # {} THEN "listening" ELSE "finished"

\* The task created by __init__ runs to its first suspension: the gate wait,
\* or with the gate already set the first read of the feed.
T_ListenerBegin ==
    /\ backend = "redis"
    /\ tListener = "created"
    /\ tListener' = IF tReady THEN Listen(tChannels) ELSE "waiting"
    /\ UNCHANGED <<backend, tReady, tQueue, tSub, tGet, tChannels, tPending, srvSubs,
                   tFeed, dVars, conns, obsVars>>
    /\ UNCHANGED <<closed, tDisc>>

\* The gate was set: the listener leaves the wait and starts listen().
T_ListenerStart ==
    /\ backend = "redis"
    /\ tListener = "waiting"
    /\ tReady
    /\ tListener' = Listen(tChannels)
    /\ UNCHANGED <<backend, tReady, tQueue, tSub, tGet, tChannels, tPending, srvSubs,
                   tFeed, dVars, conns, obsVars>>
    /\ UNCHANGED <<closed, tDisc>>

\* handle_message of the session: an unsubscribe acknowledgment for a channel
\* pending unsubscription removes it from channels.
HandleChannels(msg) ==
    IF msg.type = "unsubscribe" /\ Decode(msg.channel) \in tPending
    THEN tChannels \ {Decode(msg.channel)}
    ELSE tChannels

HandlePending(msg) ==
    IF msg.type = "unsubscribe" THEN tPending \ {Decode(msg.channel)} ELSE tPending

EnqueueFirst(q, msg) ==
    IF msg.type = "message"
    THEN <<Event(Decode(msg.channel), Decode(msg.data), msg.pid, 0, -1, FALSE, 0)>> \o q
    ELSE q

\* The loop body of _pubsub_listener: only type "message" makes an Event.
Enqueue(q, msg) ==
    IF msg.type = "message"
    THEN Append(q, Event(Decode(msg.channel), Decode(msg.data), msg.pid, 0, -1, FALSE, 0))
    ELSE q

\* message["channel"].decode() or message["data"].decode() raises.
Undecodable(msg) ==
    msg.type = "message" /\ ~(Decodable(msg.channel) /\ Decodable(msg.data))

\* One iteration of "async for message in self._pubsub.listen()".  A data
\* message that is not UTF-8 raises UnicodeDecodeError in the loop body, which
\* nothing catches: the task ends with it and nothing is queued.
T_ListenerRecv ==
    /\ backend = "redis"
    /\ tListener = "listening"
    /\ tFeed # <<>>
    /\ LET msg == Head(tFeed)
       IN  /\ tChannels' = HandleChannels(msg)
           /\ tPending' = HandlePending(msg)
           /\ IF Undecodable(msg)
              THEN /\ tQueue' = tQueue
                   /\ tListener' = "failed"
              ELSE /\ tQueue' = Enqueue(tQueue, msg)
                   /\ tListener' = Listen(HandleChannels(msg))
           /\ consumed' = IF msg.type = "message" THEN Append(consumed, msg.pid)
                                                  ELSE consumed
    /\ tFeed' = Tail(tFeed)
    /\ UNCHANGED <<backend, tReady, tSub, tGet, srvSubs, dVars, conns>>
    /\ UNCHANGED <<pubs, active, everSub, resub, delivered, errors, callVars, serial,
                   nCalls, cancelled>>
    /\ UNCHANGED <<closed, tDisc>>

\* subscribe, up to the suspension in pubsub.subscribe: the gate is set.
T_SubscribeCall(c) ==
    /\ backend = "redis"
    /\ tSub = <<>>
    /\ nCalls < MaxCalls
    /\ tReady' = TRUE
    /\ tSub' = <<c>>
    /\ nCalls' = nCalls + 1
    /\ UNCHANGED <<backend, tQueue, tListener, tGet, tChannels, tPending, srvSubs, tFeed,
                   dVars>>
    /\ UNCHANGED <<pubs, active, everSub, resub, delivered, errors, callVars, serial,
                   cancelled>>
    /\ UNCHANGED <<conns, consumed>>
    /\ UNCHANGED <<closed, tDisc>>

\* pubsub.subscribe: SUBSCRIBE is sent, the store registers the channel and
\* acknowledges on the feed, the session records the channel.  The store is
\* taken to handle the commands of this instance in the order they are sent:
\* SUBSCRIBE is written before subscribe returns, so it is registered before
\* any publish the instance makes afterwards.
T_SubscribeStore ==
    /\ backend = "redis"
    /\ tSub # <<>>
    /\ LET c == tSub[1]
       IN  /\ srvSubs' = srvSubs \cup {Encode(c)}
           /\ tFeed' = Append(tFeed, FeedMessage("subscribe", Encode(c), <<>>, 0))
           /\ tChannels' = tChannels \cup {c}
           /\ tPending' = tPending \ {c}
           /\ active' = active \cup {c}
           /\ everSub' = everSub \cup {c}
           /\ resub' = IF c \in active THEN resub \cup {c} ELSE resub
           /\ callSeen' = IF tGet = "idle" THEN callSeen ELSE callSeen \cup {c}
    /\ tSub' = <<>>
    /\ UNCHANGED <<backend, tReady, tQueue, tListener, tGet, dVars>>
    /\ UNCHANGED <<pubs, delivered, errors, callStreams, serial, nCalls, cancelled>>
    /\ conns' = conns \cup {"pubsub"}
    /\ UNCHANGED consumed
    /\ UNCHANGED <<closed, tDisc>>

\* unsubscribe: the session notes the pending unsubscription, UNSUBSCRIBE is
\* sent, the store drops the channel and acknowledges on the feed.
T_Unsubscribe(c) ==
    /\ backend = "redis"
    /\ nCalls < MaxCalls
    /\ tPending' = tPending \cup {c}
    /\ srvSubs' = srvSubs \ {Encode(c)}
    /\ tFeed' = Append(tFeed, FeedMessage("unsubscribe", Encode(c), <<>>, 0))
    /\ active' = active \ {c}
    /\ nCalls' = nCalls + 1
    /\ UNCHANGED <<backend, tReady, tQueue, tListener, tSub, tGet, tChannels, dVars>>
    /\ UNCHANGED <<pubs, everSub, resub, delivered, errors, callVars, serial, cancelled>>
    /\ conns' = conns \cup {"pubsub"}
    /\ UNCHANGED consumed
    /\ UNCHANGED <<closed, tDisc>>

DeliverAlways(feed, subs, key, data, pid) ==
    Append(feed, FeedMessage("message", key, data, pid))

\* PUBLISH: the store pushes the payload to the connection if it is subscribed
\* to the channel at that moment, and drops it otherwise.
Deliver(feed, subs, key, data, pid) ==
    IF key \in subs THEN Append(feed, FeedMessage("message", key, data, pid)) ELSE feed

\* publish.  A str the client cannot encode raises and nothing is sent.
T_Publish(c, m) ==
    /\ backend = "redis"
    /\ Len(pubs) < MaxPub
    /\ IF Sendable(m)
       THEN /\ tFeed' = Deliver(tFeed, srvSubs, Encode(c), Wire(m), Len(pubs) + 1)
            /\ pubs' = Append(pubs, Publication(c, m))
            /\ UNCHANGED errors
       ELSE /\ errors' = errors \cup {<<"publish", UnicodeEncodeError>>}
            /\ UNCHANGED <<tFeed, pubs>>
    /\ UNCHANGED <<backend, tReady, tQueue, tListener, tSub, tGet, tChannels, tPending,
                   srvSubs, dVars>>
    /\ UNCHANGED <<active, everSub, resub, delivered, callVars, serial, nCalls,
                   cancelled>>
    /\ conns' = conns \cup {"conn"}
    /\ UNCHANGED consumed
    /\ UNCHANGED <<closed, tDisc>>

\* self._queue.get() with an event queued: it is removed and returned.
T_Take(seen) ==
    /\ tQueue' = Tail(tQueue)
    /\ delivered' = Append(delivered,
           [Head(tQueue) EXCEPT !.sub = Head(tQueue).channel \in seen])
    /\ tGet' = "idle"
    /\ callSeen' = {}

\* next_published is called: it returns at once if an event is queued and is
\* suspended in the queue's get otherwise.
T_NextCall ==
    /\ backend = "redis"
    /\ tGet = "idle"
    /\ IF tQueue # <<>>
       THEN T_Take(active)
       ELSE /\ tGet' = "get"
            /\ callSeen' = active
            /\ UNCHANGED <<tQueue, delivered>>
    /\ UNCHANGED <<backend, tReady, tListener, tSub, tChannels, tPending, srvSubs, tFeed,
                   dVars>>
    /\ UNCHANGED <<pubs, active, everSub, resub, errors, callStreams, serial, nCalls,
                   cancelled>>
    /\ UNCHANGED <<conns, consumed>>
    /\ UNCHANGED <<closed, tDisc>>

\* The suspended get is resumed with the event the listener queued.
T_GetWake ==
    /\ backend = "redis"
    /\ tGet = "get"
    /\ tQueue # <<>>
    /\ T_Take(callSeen)
    /\ UNCHANGED <<backend, tReady, tListener, tSub, tChannels, tPending, srvSubs, tFeed,
                   dVars>>
    /\ UNCHANGED <<pubs, active, everSub, resub, errors, callStreams, serial, nCalls,
                   cancelled>>
    /\ UNCHANGED <<conns, consumed>>
    /\ UNCHANGED <<closed, tDisc>>

CancelGetLoses(q) == IF q = <<>> THEN q ELSE Tail(q)

\* A cancelled self._queue.get() takes nothing off the queue.
CancelGet(q) == q

\* The caller abandons the pending next_published, suspended in the get.
T_Cancel ==
    /\ backend = "redis"
    /\ tGet = "get"
    /\ cancelled' = IF tQueue = <<>> THEN cancelled ELSE Head(tQueue).pid
    /\ tQueue' = CancelGet(tQueue)
    /\ tGet' = "idle"
    /\ callSeen' = {}
    /\ UNCHANGED <<backend, tReady, tListener, tSub, tChannels, tPending, srvSubs, tFeed,
                   dVars>>
    /\ UNCHANGED <<pubs, active, everSub, resub, delivered, errors, callStreams, serial,
                   nCalls>>
    /\ UNCHANGED <<conns, consumed>>
    /\ UNCHANGED <<closed, tDisc>>

\* connect: pubsub.connect() takes a connection for the session if it has
\* none; with the store out of reach (~up) that raises ConnectionError.
T_Connect(up) ==
    /\ backend = "redis"
    /\ nCalls < MaxCalls
    /\ IF "pubsub" \in conns
       THEN UNCHANGED <<conns, errors>>
       ELSE IF up
            THEN /\ conns' = conns \cup {"pubsub"}
                 /\ UNCHANGED errors
            ELSE /\ errors' = errors \cup {<<"connect", "ConnectionError">>}
                 /\ UNCHANGED conns
    /\ nCalls' = nCalls + 1
    /\ UNCHANGED <<backend, tVars, dVars>>
    /\ UNCHANGED <<pubs, active, everSub, resub, delivered, callVars, serial, consumed,
                   cancelled>>
    /\ UNCHANGED closed

\* The listener task after self._listener.cancel(): a task that has ended
\* (returned, or raised) stays as it is, any other is cancelled.
CancelTask(l) == IF l \in {"finished", "failed"} THEN l ELSE "stopped"

\* disconnect, up to its first suspension: the session is closed (its
\* channels are forgotten, the store drops the connection's subscriptions and
\* what was pushed and not read is lost).
T_DisconnectCall ==
    /\ backend = "redis"
    /\ tDisc = "idle"
    /\ nCalls < MaxCalls
    /\ tChannels' = {}
    /\ tPending' = {}
    /\ srvSubs' = {}
    /\ tFeed' = <<>>
    /\ conns' = conns \ {"pubsub"}
    /\ tDisc' = "pubsub.aclose"
    /\ nCalls' = nCalls + 1
    /\ closed' = TRUE
    /\ UNCHANGED <<backend, tReady, tQueue, tListener, tSub, tGet, dVars>>
    /\ UNCHANGED <<pubs, active, everSub, resub, delivered, errors, callVars, serial,
                   consumed, cancelled>>

\* disconnect, resumed after the session's close: the client's connection is
\* closed.
T_DisconnectConn ==
    /\ backend = "redis"
    /\ tDisc = "pubsub.aclose"
    /\ conns' = conns \ {"conn"}
    /\ tDisc' = "conn.aclose"
    /\ UNCHANGED <<backend, tReady, tQueue, tListener, tSub, tGet, tChannels, tPending,
                   srvSubs, tFeed, dVars>>
    /\ UNCHANGED <<closed, obsVars>>

\* disconnect, resumed after the client's close: the listener task is
\* cancelled and the call returns.  self._queue is not touched.
T_DisconnectCancel ==
    /\ backend = "redis"
    /\ tDisc = "conn.aclose"
    /\ tListener' = CancelTask(tListener)
    /\ tDisc' = "idle"
    /\ UNCHANGED <<backend, tReady, tQueue, tSub, tGet, tChannels, tPending, srvSubs,
                   tFeed, dVars>>
    /\ UNCHANGED <<conns, closed, obsVars>>

NextT ==
    \/ \E up \in BOOLEAN : T_Connect(up)
    \/ T_DisconnectCall
    \/ T_DisconnectConn
    \/ T_DisconnectCancel
    \/ T_ListenerBegin
    \/ T_ListenerStart
    \/ T_ListenerRecv
    \/ \E c \in Channels : T_SubscribeCall(c)
    \/ T_SubscribeStore
    \/ \E c \in Channels : T_Unsubscribe(c)
    \/ \E c \in Channels, m \in Messages : T_Publish(c, m)
    \/ T_NextCall
    \/ T_GetWake
    \/ T_Cancel

\* ------------------------------------------------------------------ Spec
Next == NextT \/ NextD

Spec == Init /\ [][Next]_vars

\* The event loop runs every task that can run: the listener task, a call
\* resumed by its answer, the store answering; the caller keeps calling
\* next_published.  subscribe, unsubscribe, publish and cancellation are the
\* caller's choice and carry no fairness; a caller that cancels does not
\* cancel every call it makes, so the steps of a pending next_published,
\* which a cancellation disables, are strongly fair.
Fairness ==
    /\ WF_vars(T_ListenerBegin)
    /\ WF_vars(T_ListenerStart)
    /\ WF_vars(T_ListenerRecv)
    /\ WF_vars(T_SubscribeStore)
    /\ WF_vars(T_NextCall)
    /\ SF_vars(T_GetWake)
    /\ WF_vars(D_SubscribeReturn)
    /\ WF_vars(D_NextCall)
    /\ SF_vars(D_GatePass)
    /\ SF_vars(D_XReadServe)
    /\ SF_vars(D_XReadTimeout)
    /\ SF_vars(D_NextReturn)

\* The setting the liveness properties are about: every stream of the store
\* was written before the backend is constructed, and the caller publishes
\* text and does not disconnect.
InitLive == Init /\ \A k \in StoreKeys : backend = "redis-stream" => log[k] # <<>>

Texts == { m \in Messages : m.type = "str" }

NextLive ==
    \/ \E up \in BOOLEAN : T_Connect(up)
    \/ T_ListenerBegin
    \/ T_ListenerStart
    \/ T_ListenerRecv
    \/ \E c \in Channels : T_SubscribeCall(c)
    \/ T_SubscribeStore
    \/ \E c \in Channels : T_Unsubscribe(c)
    \/ \E c \in Channels, m \in Texts : T_Publish(c, m)
    \/ T_NextCall
    \/ T_GetWake
    \/ T_Cancel
    \/ \E up \in BOOLEAN : D_Connect(up)
    \/ \E c \in Channels : D_SubscribeCall(c)
    \/ D_SubscribeReturn
    \/ \E c \in Channels : D_Unsubscribe(c)
    \/ \E c \in Channels, m \in Texts : D_Publish(c, m)
    \/ D_NextCall
    \/ D_GatePass
    \/ D_XReadServe
    \/ D_XReadTimeout
    \/ D_NextReturn
    \/ D_Cancel

FairSpec == InitLive /\ [][NextLive]_vars /\ Fairness

\* ================================================================ claims ==
Durable == backend = "redis-stream"
Transient == backend = "redis"

\* Positions of delivered that hold an event of channel c.
Of(c) == { i \in 1..Len(delivered) : delivered[i].channel = c }

\* The publish call p has been returned by next_published, as published.
Returned(p) ==
    \E i \in 1..Len(delivered) :
        /\ delivered[i].pid = p
        /\ delivered[i].channel = pubs[p].channel
        /\ Str(delivered[i].message) = pubs[p].message

TimesReturned(p) == Cardinality({ i \in 1..Len(delivered) : delivered[i].pid = p })

\* Entries of c's stream the backend has still to deliver: those after the cursor.
Pending(d, lg, c) ==
    IF HasKey(d, c) THEN { id \in 1..Len(lg[Encode(c)]) : id > Get(d, c) } ELSE {}

\* C1: durable backend, next_published calls made one after the other,
\* subscribe, unsubscribe and publish calls at any time: the entries returned
\* for one channel have strictly increasing ids, so each is returned at most
\* once and in append order, and each returned id is greater than the cursor
\* the channel had when the call started.
C1_AtMostOnceInOrder ==
    Durable =>
        /\ \A c \in Channels : \A i, j \in Of(c) :
               i < j => delivered[i].id < delivered[j].id
        /\ \A i \in 1..Len(delivered) : delivered[i].from < delivered[i].id

\* C2: durable backend: a subscribe whose stream-info lookup answered not-found
\* completes without raising, records cursor 0 for the channel and sets the gate.
C2_NotFoundRecovered ==
    [][ (dSub # <<>> /\ dSub' = <<>> /\ dSub[1].info.error = "ResponseError")
        => /\ errors' = errors
           /\ dReady'
           /\ HasKey(streams', dSub[1].ch)
           /\ Get(streams', dSub[1].ch) = 0 ]_vars

\* C3: transient backend: every event next_published returns is of a channel
\* that was subscribed when the call started or was subscribed during the call.
C3_NoEventAfterUnsubscribe ==
    Transient => \A i \in 1..Len(delivered) : delivered[i].sub

\* C4: both backends: a message published to a channel whose subscribe has
\* completed is eventually returned by next_published, unchanged, unless the
\* channel is unsubscribed or the backend disconnected.
C4_RoundTrip ==
    \A p \in 1..MaxPub :
        (Len(pubs) >= p /\ pubs[p].live)
            ~> (Len(pubs) >= p /\ (Returned(p) \/ pubs[p].channel \notin active \/ closed))

\* C5: transient backend: no event returned by next_published is of a publish
\* call made before the first subscribe of its channel completed.
C5_NoRetroactiveDelivery ==
    Transient => \A i \in 1..Len(delivered) : ~pubs[delivered[i].pid].early

C5_Witness ==
    /\ Transient
    /\ \E p, q \in 1..Len(pubs) :
           /\ p < q
           /\ pubs[p].channel = pubs[q].channel
           /\ pubs[p].early
           /\ Returned(q)

\* Nothing is left to happen on the transient backend, not disconnected, short
\* of a new call: no subscribe is in flight, the listener has nothing it can
\* read, the queue is empty.
TransientSettled ==
    /\ Transient
    /\ ~closed
    /\ tSub = <<>>
    /\ tQueue = <<>>
    /\ tListener # "created"
    /\ ~(tListener = "waiting" /\ tReady)
    /\ ~(tListener = "listening" /\ tFeed # <<>>)

\* C6: transient backend: every event returned is of a publish call, none is
\* returned twice, and once everything has settled each publish call made on
\* a subscribed channel that was subscribed more than once has been returned
\* exactly once.
C6_ExactlyOnePerPublish ==
    Transient =>
        /\ \A i \in 1..Len(delivered) : delivered[i].pid \in 1..Len(pubs)
        /\ \A p \in 1..Len(pubs) : TimesReturned(p) <= 1
        /\ TransientSettled =>
               \A p \in 1..Len(pubs) :
                   (pubs[p].live /\ pubs[p].channel \in resub) => TimesReturned(p) = 1

\* C7: durable backend: a subscribe on a channel that is already in the cursor
\* mapping leaves the entries of the channel still to be delivered as they were.
C7_ResubscribeKeepsPending ==
    [][ (dSub # <<>> /\ dSub' = <<>> /\ HasKey(streams, dSub[1].ch))
        => Pending(streams', log', dSub[1].ch) = Pending(streams, log, dSub[1].ch) ]_vars

\* The channel is not subscribed: not a key of the cursor mapping (durable),
\* not a channel of the pub/sub session nor of the store's connection (transient).
NotSubscribed(c) ==
    IF Durable THEN ~HasKey(streams, c)
    ELSE c \notin tChannels /\ Encode(c) \notin srvSubs

\* C8: both backends: unsubscribe of a channel that is not subscribed raises
\* nothing and leaves the cursor mapping and gate (durable) and the subscribed
\* channels, the queue and the gate (transient) unchanged.
C8_UnsubscribeNotSubscribed ==
    [][ \A c \in Channels :
          (NotSubscribed(c) /\ (D_Unsubscribe(c) \/ T_Unsubscribe(c)))
          => /\ errors' = errors
             /\ UNCHANGED <<streams, dReady>>
             /\ UNCHANGED <<tChannels, srvSubs, tQueue, tReady>> ]_vars

C8_Witness ==
    /\ Transient
    /\ active = {}
    /\ everSub = {}
    /\ tSub = <<>>
    /\ Len(tFeed) >= 2
    /\ tFeed[1].type = "unsubscribe"
    /\ tFeed[2].type = "unsubscribe"

\* What a next_published call made now would return with no further publish
\* or subscription change: the head of the queue, or the first entry the store
\* would read from the cursor mapping.
NextEvent ==
    IF Transient
    THEN IF tQueue = <<>> THEN <<>> ELSE <<Head(tQueue)>>
    ELSE LET r == XRead(streams, log)
         IN  IF r = <<>> THEN <<>> ELSE <<r[1]>>

\* C9: both backends: cancelling a pending next_published changes neither
\* what was returned so far nor what the next call returns, and the durable
\* backend's step that takes an entry from the store's answer is the step that
\* sets the channel's cursor to the entry's id.
C9_CancelKeepsEvent ==
    [][ /\ (T_Cancel \/ D_Cancel) =>
               /\ NextEvent' = NextEvent
               /\ UNCHANGED <<delivered, streams, log, tQueue, tFeed>>
        /\ (Durable /\ Len(delivered') > Len(delivered)) =>
               LET e == delivered'[Len(delivered')]
               IN  /\ dPc = "served"
                   /\ HasKey(streams', e.channel)
                   /\ Get(streams', e.channel) = e.id ]_vars

C9_Witness ==
    /\ cancelled >= 1
    /\ TimesReturned(cancelled) = 1

\* C10: durable backend: next_published never raises DataError, the refusal of
\* a store read over an empty cursor mapping.
C10_EmptyMappingBlocks ==
    Durable => <<"next_published", "DataError">> \notin errors

\* Ids of the entries publish calls append in the setting of the liveness
\* properties, where every stream holds one earlier entry.
AppendedIds == 2..(MaxPub + 1)

\* The entry id of channel c's stream has been returned by next_published.
ReturnedEntry(c, id) ==
    \E i \in 1..Len(delivered) : delivered[i].channel = c /\ delivered[i].id = id

\* C11: durable backend, several channels in the cursor mapping: an entry after
\* the cursor of one of them is eventually returned by next_published (called
\* again and again) while the channel stays subscribed, whatever the other
\* channels hold; and, for calls made one after the other, a call is about to
\* return only an entry that is after the cursor of its channel, so with
\* nothing after any cursor the call keeps waiting.
C11_MultiChannelDelivery ==
    /\ [](Durable /\ serial /\ dPc = "served"
            => dReply[1].id \in Pending(streams, log, Decode(dReply[1].stream)))
    /\ \A c \in Channels : \A id \in AppendedIds :
           (Durable /\ Len(streams) >= 2 /\ id \in Pending(streams, log, c))
               ~> (ReturnedEntry(c, id) \/ ~HasKey(streams, c))

\* The connections connect() is to establish.
Clients == IF Durable THEN {"producer", "consumer"} ELSE {"pubsub"}

\* C12: both backends: a connect call made while the store cannot be reached
\* raises ConnectionError, and a connect call that returns normally leaves the
\* backend's store connections established.
C12_ConnectReportsStore ==
    [][ \A up \in BOOLEAN :
          (T_Connect(up) \/ D_Connect(up))
          => IF up
             THEN errors' = errors /\ Clients \subseteq conns'
             ELSE <<"connect", "ConnectionError">> \in errors' ]_vars

\* C13: durable backend: in every state the keys of the cursor mapping are
\* the channels currently subscribed (a subscribe completed, no unsubscribe
\* completed since).
C13_MappingIffSubscribed == Durable => Keys(streams) = active

\* C14: durable backend: no step lowers the cursor recorded for a channel.
C14_CursorMonotone ==
    [][ \A c \in Channels :
          (HasKey(streams, c) /\ HasKey(streams', c))
          => Get(streams', c) >= Get(streams, c) ]_vars

\* C15: transient backend: the listener task leaves its start or its wait for
\* the gate only to iterate the feed, and only with a channel recorded in the
\* session (a disconnect, which cancels it, aside).
C15_ListenerStartsSubscribed ==
    [][ (tListener \in {"created", "waiting"} /\ tListener' \notin {"created", "waiting"})
        => \/ T_DisconnectCancel
           \/ tListener' = "listening" /\ tChannels # {} ]_vars

\* C16: transient backend: the listener task goes from created to waiting to
\* listening only (from created straight to listening if the gate is set
\* already), leaves listening only by a disconnect, and a disconnect
\* leaves the task ended and the queue empty (a queued event is dropped).
C16_ListenerLifecycle ==
    [][ /\ tListener' # tListener
           => \/ T_DisconnectCancel
              \/ tListener = "created" /\ tListener' \in {"waiting", "listening"}
              \/ tListener = "waiting" /\ tListener' = "listening"
        /\ T_DisconnectCancel => tListener' \in {"stopped", "finished"} /\ tQueue' = <<>> ]_vars

\* The publish calls of a sequence of events.
PidsOf(q) == [i \in 1..Len(q) |-> q[i].pid]

\* C17: transient backend: the events returned so far followed by the events
\* still queued are, in this order, the data messages the listener has read
\* from the feed: none reordered, duplicated or skipped.
C17_FifoThroughQueue ==
    Transient =>
        PidsOf(delivered) \o PidsOf(tQueue)
            = SelectSeq(consumed, LAMBDA p : Decodable(Wire(pubs[p].message)))

C17_Witness ==
    /\ Transient
    /\ Len(delivered) >= 2
    /\ delivered[1].channel # delivered[2].channel
    /\ delivered[1].pid < delivered[2].pid

\* C18: transient backend: when the listener task has ended by itself, a
\* next_published call waiting on the empty queue does not wait forever.
C18_ListenerEndSurfaces ==
    (Transient /\ tListener = "finished" /\ tGet = "get" /\ tQueue = <<>>)
        ~> (tGet # "get")

\* C19: durable backend: the step in which next_published returns adds one
\* event, sets the cursor of the event's channel to the entry's id and leaves
\* the cursor of every other channel, and so the entries still to be
\* delivered for it, as they were; and after a call has returned one entry of
\* an answer that held entries of other channels too, every entry still to be
\* delivered for another channel is eventually returned by next_published
\* (called again and again) while the channel stays subscribed.
C19_OneEntryPerCall ==
    /\ [][ (Durable /\ delivered' # delivered)
            => LET e == delivered'[Len(delivered')]
               IN  /\ delivered' = Append(delivered, e)
                   /\ HasKey(streams', e.channel)
                   /\ Get(streams', e.channel) = e.id
                   /\ \A c \in Channels \ {e.channel} :
                          /\ HasKey(streams', c) = HasKey(streams, c)
                          /\ Pending(streams', log', c) = Pending(streams, log, c)
                          /\ HasKey(streams, c) => Get(streams', c) = Get(streams, c) ]_vars
    /\ \A c \in Channels : \A id \in AppendedIds :
           (/\ Durable
            /\ delivered # <<>>
            /\ delivered[Len(delivered)].also >= 1
            /\ delivered[Len(delivered)].channel # c
            /\ id \in Pending(streams, log, c))
               ~> (ReturnedEntry(c, id) \/ ~HasKey(streams, c))

\* C20: durable backend: next_published returns only an entry after the
\* cursor its channel has at that moment (a cursor seeded by subscribe with
\* the stream's last id is never gone back behind), and every entry after the
\* cursor of a channel is eventually returned while the channel stays
\* subscribed.
C20_SeededAtLatest ==
    /\ [][ (Durable /\ delivered' # delivered)
            => LET e == delivered'[Len(delivered')]
               IN  HasKey(streams, e.channel) => e.id > Get(streams, e.channel) ]_vars
    /\ \A c \in Channels : \A id \in AppendedIds :
           (Durable /\ id \in Pending(streams, log, c))
               ~> (ReturnedEntry(c, id) \/ ~HasKey(streams, c))
====
